---------------------------- MODULE Spec2Model ----------------------------
(***************************************************************************)
(* ATEMLogger (atemlogger7.py): the monitoring thread that samples the     *)
(* switcher's program input and the HyperDeck's display timecode, turns    *)
(* input changes into clips and writes them as an EDL, together with the   *)
(* timecode arithmetic, the HyperDeck client and the EDL serializer.       *)
(*                                                                         *)
(* Python values are modelled as follows.  A str is the sequence of its    *)
(* characters (one-character TLA+ strings), so "" is << >>.  None is the   *)
(* one-element sequence <<"None">>, which is no sequence of characters.    *)
(***************************************************************************)
EXTENDS Integers, Sequences, FiniteSets, TLC

VARIABLES
    \* ---- timecode arithmetic, called on its own (SpecAdjust)
    fn_tc,              \* argument timecode of adjust_timecode
    fn_delta,           \* argument compensation_frames of adjust_timecode
    fn_out,             \* the value adjust_timecode returned
    fn_state,           \* "idle" | "call" | "ret"
    \* ---- get_timecode_from_hyperdeck on its socket (SpecDeck)
    d_state,            \* "idle" | "recv" | "parse" | "ret": where the call stands
    rx,                 \* what the deck has sent and recv has not yet returned
    peer_open,          \* the deck has not closed its end of the stream
    sock_fault,         \* the connection is broken: send and recv raise
    cmd_pending,        \* a "transport info" command the deck has not answered
    response,           \* the local `response` of the call in progress
    d_result,           \* what the last call returned
    d_calls,            \* calls made so far
    d_reply,            \* history: the deck's reply to the query of this call
    d_seen,             \* history: the buffer the last call parsed
    d_io_error,         \* history: send or recv raised in this call
    \* ---- generate_edl, called on its own (SpecEdl), and the file it writes
    g_clips,            \* argument clips of generate_edl
    g_before,           \* history: the clips as they were when the call began
    g_comp,             \* argument compensation_frames of generate_edl
    g_state,            \* "idle" | "call" | "ret"
    g_log,              \* the level of the record the call logged last, "none" before it
    edl_file,           \* the file at file_path: [exists, lines]
    \* ---- ATEMGUI and its ATEMMonitorThread (Spec)
    stop_event,         \* threading.Event shared by the window and the thread
    is_monitoring,      \* ATEMGUI.is_monitoring
    gui,                \* "idle" | "waiting" | "closing" | "closed": the window's thread;
                        \* "waiting" and "closing" are inside monitor_thread.wait()
    gui_file_path,      \* ATEMGUI.file_path: None or the chosen path
    restarted,          \* history: a thread was started after an earlier one
    pc,                 \* where run() stands; "none" before a thread exists
    file_path,          \* ATEMMonitorThread.file_path: None or a path
    compensation_frames,\* ATEMMonitorThread.compensation_frames
    atem_connected,     \* the switcher connection is up
    hyperdeck_conn,     \* "None" | "open" | "closed": self.hyperdeck_conn
    program_input,      \* run()'s locals
    timecode,
    last_program_input,
    last_timecode,
    clips,
    events,             \* the signals emitted, in order
    ticks,              \* loop iterations begun
    samples,            \* history: (input, timecode) of each iteration, while all were good
    all_good,           \* history: every iteration so far got an input and a timecode
    last_known,         \* history: the latest timecode the deck actually gave
    err_mark,           \* history: <<failed iterations, Len(clips) after the latest>>
    edl_error           \* history: generate_edl raised in run()

adjust_vars == <<fn_tc, fn_delta, fn_out, fn_state>>

deck_vars == <<d_state, rx, peer_open, sock_fault, cmd_pending, response,
               d_result, d_calls, d_reply, d_seen, d_io_error>>

edl_vars == <<g_clips, g_before, g_comp, g_state, g_log>>

gui_vars == <<stop_event, is_monitoring, gui, gui_file_path, restarted>>

thread_vars == <<pc, file_path, compensation_frames, atem_connected, hyperdeck_conn,
                 program_input, timecode, last_program_input, last_timecode, clips,
                 events, ticks>>

history_vars == <<samples, all_good, last_known, err_mark, edl_error>>

session_vars == <<gui_vars, thread_vars, history_vars>>

vars == <<adjust_vars, deck_vars, edl_vars, edl_file, session_vars>>

---------------------------------------------------------------------------
(* Python values *)

None == <<"None">>

DigitChars == <<"0", "1", "2", "3", "4", "5", "6", "7", "8", "9">>

DigitSet == {DigitChars[i] : i \in 1..10}

\* the value of a decimal digit character
DigitVal(c) == (CHOOSE i \in 1..10 : DigitChars[i] = c) - 1

\* truthiness of a value that is None or a str: `if timecode:`
Truthy(x) == x # None /\ x # << >>

\* str.split(sep) on a single separator character: the list of the pieces
RECURSIVE SplitFrom(_, _, _, _)
SplitFrom(s, sep, i, cur) ==
    IF i > Len(s) THEN <<cur>>
    ELSE IF s[i] = sep THEN <<cur>> \o SplitFrom(s, sep, i + 1, << >>)
    ELSE SplitFrom(s, sep, i + 1, Append(cur, s[i]))

Split(s, sep) == SplitFrom(s, sep, 1, << >>)

\* int(text) succeeds: a non-empty run of decimal digits (signs, blanks and
\* underscores, which int() also accepts, do not occur in the modelled inputs)
IsNumber(cs) == cs # << >> /\ \A i \in 1..Len(cs) : cs[i] \in DigitSet

\* int(text)
RECURSIVE IntOf(_)
IntOf(cs) ==
    IF cs = << >> THEN 0
    ELSE 10 * IntOf(SubSeq(cs, 1, Len(cs) - 1)) + DigitVal(cs[Len(cs)])

\* str(n) for n >= 0
RECURSIVE DigitsOf(_)
DigitsOf(n) ==
    IF n < 10 THEN <<DigitChars[n + 1]>>
    ELSE Append(DigitsOf(n \div 10), DigitChars[(n % 10) + 1])

\* f"{n:0w}": zero-padded to at least w characters
RECURSIVE ZeroPad(_, _)
ZeroPad(cs, w) == IF Len(cs) >= w THEN cs ELSE ZeroPad(<<"0">> \o cs, w)

Pad2(n) == ZeroPad(DigitsOf(n), 2)

---------------------------------------------------------------------------
(* adjust_timecode *)

\* the assumed frame rate of the overflow test
FrameRate == 25

\* a faulty variant of carry_overflow, without lines 59-62: the minutes are
\* never carried into the hours
carry_no_minute_overflow(h, m, s, f, d) ==
    LET f1 == f + d
        f2 == IF f1 >= FrameRate THEN f1 - FrameRate ELSE f1
        s1 == IF f1 >= FrameRate THEN s + 1 ELSE s
        s2 == IF s1 >= 60 THEN s1 - 60 ELSE s1
        m1 == IF s1 >= 60 THEN m + 1 ELSE m
    IN  <<h, m1, s2, f2>>

\* lines 47-62, the overflow steps of adjust_timecode on the four integers:
\* each is an `if`, so one carry out of the frames, one out of the seconds,
\* one out of the minutes
carry_overflow(h, m, s, f, d) ==
    LET f1 == f + d
        f2 == IF f1 >= FrameRate THEN f1 - FrameRate ELSE f1
        s1 == IF f1 >= FrameRate THEN s + 1 ELSE s
        s2 == IF s1 >= 60 THEN s1 - 60 ELSE s1
        m1 == IF s1 >= 60 THEN m + 1 ELSE m
        m2 == IF m1 >= 60 THEN m1 - 60 ELSE m1
        h1 == IF m1 >= 60 THEN h + 1 ELSE h
    IN  <<h1, m2, s2, f2>>

\* f"{hours:02}:{minutes:02}:{seconds:02}:{frames:02}"
format_timecode(t) ==
    Pad2(t[1]) \o <<":">> \o Pad2(t[2]) \o <<":">> \o Pad2(t[3]) \o <<":">> \o Pad2(t[4])

\* hours, minutes, seconds, frames = map(int, timecode.split(':')) succeeds
ParsesAsFour(tcode) ==
    /\ tcode # None
    /\ LET parts == Split(tcode, ":")
       IN  Len(parts) = 4 /\ \A i \in 1..4 : IsNumber(parts[i])

ParseFour(tcode) ==
    LET parts == Split(tcode, ":")
    IN  <<IntOf(parts[1]), IntOf(parts[2]), IntOf(parts[3]), IntOf(parts[4])>>

\* a faulty variant of AdjustExceptResult: the exception leaves the function
AdjustExceptPropagates(tcode) == <<"raise">>

\* lines 67-69: any exception is logged and the argument is returned
AdjustExceptResult(tcode) == tcode

\* adjust_timecode(timecode, compensation_frames); any exception of the body
\* (None has no split, a piece is no integer, not four pieces) returns the
\* argument as it came
adjust_timecode(tcode, comp) ==
    IF ~ParsesAsFour(tcode) THEN AdjustExceptResult(tcode)
    ELSE LET t == ParseFour(tcode)
         IN  format_timecode(carry_overflow(t[1], t[2], t[3], t[4], comp))

---------------------------------------------------------------------------
(* bounds and input sets of the arithmetic *)

MaxHours == 1
FieldEdge == 1
MaxDelta == 26

\* hours 0..MaxHours and 99, where the carry widens the hours field
HourVals == (0..MaxHours) \cup {99}

\* the minutes and seconds next to both ends of 0..59
SixtyVals == (0..FieldEdge) \cup ((59 - FieldEdge)..59)

ValidTimecodes ==
    {format_timecode(<<h, m, s, f>>) :
        h \in HourVals, m \in SixtyVals, s \in SixtyVals, f \in 0..(FrameRate - 1)}

\* "00:00": a str that is not four integers
ShortText == <<"0", "0", ":", "0", "0">>

AdjustInputs == ValidTimecodes \cup {None, << >>, ShortText}

AdjustIdle ==
    /\ fn_tc = None
    /\ fn_delta = 0
    /\ fn_out = None
    /\ fn_state = "idle"

InitAdjustCall ==
    /\ fn_tc \in AdjustInputs
    /\ fn_delta \in 0..MaxDelta
    /\ fn_out = None
    /\ fn_state = "call"

CallAdjust ==
    /\ fn_state = "call"
    /\ fn_out' = adjust_timecode(fn_tc, fn_delta)
    /\ fn_state' = "ret"
    /\ UNCHANGED <<fn_tc, fn_delta>>
    /\ UNCHANGED <<deck_vars, edl_vars, edl_file, session_vars>>

---------------------------------------------------------------------------
(* get_timecode_from_hyperdeck *)

\* the stream is a sequence of characters; the fixed texts of the protocol
\* are single elements, which no read splits
Header == "208 transport info:"
StatusRecord == "status: record"
StatusStopped == "status: stopped"
Key == "display timecode:"

StatusTexts == {StatusRecord, StatusStopped}

Whitespace == {" ", "\r", "\n", "\t"}

\* str.strip()
RECURSIVE Strip(_)
Strip(s) ==
    IF s = << >> THEN s
    ELSE IF s[1] \in Whitespace THEN Strip(Tail(s))
    ELSE IF s[Len(s)] \in Whitespace THEN Strip(SubSeq(s, 1, Len(s) - 1))
    ELSE s

\* line.split("display timecode:")[1] of a line that starts with the key:
\* what follows the key, up to its next occurrence
AfterKey(line) ==
    LET later == {i \in 2..Len(line) : line[i] = Key}
        stop == IF later = {} THEN Len(line) + 1
                ELSE CHOOSE i \in later : \A j \in later : i <= j
    IN  SubSeq(line, 2, stop - 1)

\* a faulty variant of QueryExceptResult: the exception leaves the call
QueryExceptPropagates == <<"raise">>

\* lines 116-119: the except branch logs and falls through to `return None`
QueryExceptResult == None

\* lines 98-119 on the decoded buffer: the first line that starts with the
\* key gives the result; a buffer without one, with or without a status
\* field, gives None
parse_response(response_str) ==
    LET lines == Split(response_str, "\n")
        hits == {i \in 1..Len(lines) : lines[i] # << >> /\ lines[i][1] = Key}
    IN  IF hits = {} THEN None
        ELSE LET first == CHOOSE i \in hits : \A j \in hits : i <= j
             IN  Strip(AfterKey(lines[first]))

MaxQueries == 2

\* the display timecodes the deck reports
DeckTimecodes == {format_timecode(<<0, 0, 1, 0>>), format_timecode(<<0, 0, 2, 0>>)}

ReplyRecording(tc) ==
    <<Header, "\r", "\n", StatusRecord, "\r", "\n", Key, " ">> \o tc \o <<"\r", "\n">>

ReplyStopped == <<Header, "\r", "\n", StatusStopped, "\r", "\n">>

\* data with no line terminator
ReplyUnterminated == <<StatusRecord>>

NoReply == << >>

Replies == {ReplyRecording(tc) : tc \in DeckTimecodes} \cup {ReplyStopped, ReplyUnterminated}

DeckIdle ==
    /\ d_state = "idle"
    /\ rx = << >>
    /\ peer_open = TRUE
    /\ sock_fault = FALSE
    /\ cmd_pending = FALSE
    /\ response = << >>
    /\ d_result = None
    /\ d_calls = 0
    /\ d_reply = NoReply
    /\ d_seen = << >>
    /\ d_io_error = FALSE

\* the socket as connect_to_hyperdeck returns it: connected, greeting read
InitDeckClient == DeckIdle

\* line 89 and line 91: sendall, then the empty buffer; a broken connection
\* makes sendall raise, and the except branch ends the call
QuerySend ==
    /\ d_state \in {"idle", "ret"}
    /\ d_calls < MaxQueries
    /\ d_calls' = d_calls + 1
    /\ response' = << >>
    /\ d_reply' = NoReply
    /\ d_seen' = << >>
    /\ IF sock_fault
       THEN /\ d_result' = QueryExceptResult
            /\ d_state' = "ret"
            /\ d_io_error' = TRUE
            /\ UNCHANGED cmd_pending
       ELSE /\ d_state' = "recv"
            /\ d_io_error' = FALSE
            /\ cmd_pending' = peer_open
            /\ UNCHANGED d_result
    /\ UNCHANGED <<rx, peer_open, sock_fault>>
    /\ UNCHANGED <<adjust_vars, edl_vars, edl_file, session_vars>>

\* lines 93-96: one recv(1024) and the loop test.  recv raises on a broken
\* connection, returns some non-empty prefix of what has arrived, returns
\* b"" once the deck has closed and nothing is left, and blocks otherwise.
QueryRecv ==
    /\ d_state = "recv"
    /\ \/ /\ sock_fault
          /\ d_result' = QueryExceptResult
          /\ d_state' = "ret"
          /\ d_io_error' = TRUE
          /\ response' = << >>
          /\ UNCHANGED <<rx, d_seen>>
       \/ /\ ~sock_fault
          /\ rx # << >>
          /\ \E n \in 1..Len(rx) :
                LET chunk == SubSeq(rx, 1, n)
                IN  /\ response' = response \o chunk
                    /\ rx' = SubSeq(rx, n + 1, Len(rx))
                    /\ d_state' = IF \E i \in 1..n : chunk[i] = "\n"
                                  THEN "parse" ELSE "recv"
          /\ UNCHANGED <<d_result, d_io_error, d_seen>>
       \/ /\ ~sock_fault
          /\ rx = << >>
          /\ ~peer_open
          /\ d_state' = "parse"
          /\ UNCHANGED <<rx, response, d_result, d_io_error, d_seen>>
    /\ UNCHANGED <<peer_open, sock_fault, cmd_pending, d_calls, d_reply>>
    /\ UNCHANGED <<adjust_vars, edl_vars, edl_file, session_vars>>

\* lines 98-119: decode, search the lines, return
QueryParse ==
    /\ d_state = "parse"
    /\ d_result' = parse_response(response)
    /\ d_seen' = response
    /\ response' = << >>
    /\ d_state' = "ret"
    /\ UNCHANGED <<rx, peer_open, sock_fault, cmd_pending, d_calls, d_reply, d_io_error>>
    /\ UNCHANGED <<adjust_vars, edl_vars, edl_file, session_vars>>

\* the deck answers the command it received
DeckReply ==
    /\ cmd_pending
    /\ peer_open
    /\ ~sock_fault
    /\ \E r \in Replies :
          /\ rx' = rx \o r
          /\ d_reply' = r
    /\ cmd_pending' = FALSE
    /\ UNCHANGED <<d_state, peer_open, sock_fault, response, d_result, d_calls,
                   d_seen, d_io_error>>
    /\ UNCHANGED <<adjust_vars, edl_vars, edl_file, session_vars>>

\* the deck closes the stream
DeckClose ==
    /\ peer_open
    /\ ~sock_fault
    /\ peer_open' = FALSE
    /\ cmd_pending' = FALSE
    /\ UNCHANGED <<d_state, rx, sock_fault, response, d_result, d_calls, d_reply,
                   d_seen, d_io_error>>
    /\ UNCHANGED <<adjust_vars, edl_vars, edl_file, session_vars>>

\* the connection breaks (reset, network error): unread data is lost
ConnectionBreaks ==
    /\ ~sock_fault
    /\ sock_fault' = TRUE
    /\ rx' = << >>
    /\ cmd_pending' = FALSE
    /\ UNCHANGED <<d_state, peer_open, response, d_result, d_calls, d_reply,
                   d_seen, d_io_error>>
    /\ UNCHANGED <<adjust_vars, edl_vars, edl_file, session_vars>>

---------------------------------------------------------------------------
(* generate_edl *)

\* a value inside an f-string: None prints as the text None
Text(x) == IF x = None THEN <<"N", "o", "n", "e">> ELSE x

TitleLine == <<"TITLE: ATEM Program Output", "\n">>

FcmLine == <<"FCM: NON-DROP FRAME", "\n">>

\* a faulty variant of RecordLine: the id is the index counted from 0
RecordLineZeroBased(i, start_timecode, end_timecode) ==
    ZeroPad(DigitsOf(i), 4) \o <<"  AX    V     C   ">>
        \o Text(start_timecode) \o <<" ">> \o Text(end_timecode) \o <<" ">>
        \o Text(start_timecode) \o <<" ">> \o Text(end_timecode) \o <<"\n">>

\* line 36 for the clip at index i of enumerate(clips), counted from 0
RecordLine(i, start_timecode, end_timecode) ==
    ZeroPad(DigitsOf(i + 1), 4) \o <<"  AX    V     C   ">>
        \o Text(start_timecode) \o <<" ">> \o Text(end_timecode) \o <<" ">>
        \o Text(start_timecode) \o <<" ">> \o Text(end_timecode) \o <<"\n">>

\* line 37
NameLine(src) == <<"* FROM CLIP NAME: ">> \o Text(src) \o <<"\n">>

\* lines 26-32: the timecode written for a stored one
Written(tcode, comp) ==
    IF comp > 0
    THEN adjust_timecode(tcode, comp)
    ELSE tcode

RECURSIVE ClipLines(_, _, _)
ClipLines(cs, i, comp) ==
    IF i >= Len(cs) THEN << >>
    ELSE <<RecordLine(i, Written(cs[i + 1].start, comp),
                         Written(cs[i + 1].end, comp)),
           NameLine(cs[i + 1].src)>>
         \o ClipLines(cs, i + 1, comp)

NoFile == [exists |-> FALSE, lines |-> << >>]

\* lines 17 and 39: the level of the record generate_edl logs
edl_log(cs) == IF cs = << >> THEN "warning" ELSE "info"

\* a faulty variant of generate_edl: the file is opened before the clips are
\* looked at
generate_edl_opens_first(cs, file, comp) ==
    [exists |-> TRUE,
     lines |-> IF cs = << >> THEN << >>
               ELSE <<TitleLine, FcmLine>> \o ClipLines(cs, 0, comp)]

\* generate_edl(clips, file_path, compensation_frames) as the file it leaves
\* at file_path, given the file that was there: no clips, no write
generate_edl(cs, file, comp) ==
    IF cs = << >> THEN file
    ELSE [exists |-> TRUE,
          lines |-> <<TitleLine, FcmLine>> \o ClipLines(cs, 0, comp)]

MaxClips == 2

\* the default of the frame compensation field
DefaultCompensation == 2

CompensationVals == {0, DefaultCompensation, MaxDelta}

Sources == {<<"input1">>, <<"input2">>}

EdlTimecodes ==
    {format_timecode(<<0, 0, 0, 0>>), format_timecode(<<0, 59, 59, 24>>), None, ShortText}

ClipValues == [src : Sources, start : EdlTimecodes, end : EdlTimecodes]

ClipLists == UNION {[1..n -> ClipValues] : n \in 0..MaxClips}

\* a file left by an earlier run
OldFile == [exists |-> TRUE, lines |-> << <<"old", "\n">> >>]

EdlIdle ==
    /\ g_clips = << >>
    /\ g_before = << >>
    /\ g_comp = 0
    /\ g_state = "idle"
    /\ g_log = "none"

InitEdlCall ==
    /\ g_clips \in ClipLists
    /\ g_before = g_clips
    /\ g_comp \in CompensationVals
    /\ g_state = "call"
    /\ g_log = "none"
    /\ edl_file \in {NoFile, OldFile}

CallGenerate ==
    /\ g_state = "call"
    /\ edl_file' = generate_edl(g_clips, edl_file, g_comp)
    /\ g_log' = edl_log(g_clips)
    /\ g_state' = "ret"
    /\ UNCHANGED <<g_clips, g_before, g_comp>>
    /\ UNCHANGED <<adjust_vars, deck_vars, session_vars>>

---------------------------------------------------------------------------
(* ATEMMonitorThread.run and the window's start and stop *)

MaxTicks == 4

\* a path chosen with "Choose EDL save location"
SavePath == <<"out.edl">>

\* what a completed receive loop can hand to the parser in a session: a full
\* reply, a reply without the field, a reply cut right after the key
SessionBuffers ==
    {ReplyRecording(tc) : tc \in DeckTimecodes} \cup {ReplyStopped, ReplyRecording(<< >>)}

LoopPcs == {"while", "sample", "query", "edge"}

\* a faulty variant of clip_dict: the end is taken from the pending timecode
clip_dict_end_is_start(start, end, src) == [src |-> src, start |-> start, end |-> start]

\* lines 169-173 and 184-188: the dict appended to clips
clip_dict(start, end, src) == [src |-> src, start |-> start, end |-> end]

InputEvent(x) == [sig |-> "update_input_signal", args |-> <<x>>]

TimecodeEvent(t) == [sig |-> "update_timecode_signal", args |-> <<t>>]

LogEvent(src, start, end) == [sig |-> "update_log_signal", args |-> <<src, start, end>>]

\* a faulty variant of IterationErrorTarget: no try inside the loop, so the
\* exception reaches the outer finally
IterationErrorEscapes == "finally"

\* lines 180-181: the except of the loop body logs, and the while test is next
IterationErrorTarget == "while"

SessionIdle ==
    /\ stop_event = FALSE
    /\ is_monitoring = FALSE
    /\ gui = "idle"
    /\ gui_file_path = None
    /\ restarted = FALSE
    /\ pc = "none"
    /\ file_path = None
    /\ compensation_frames = 0
    /\ atem_connected = FALSE
    /\ hyperdeck_conn = "None"
    /\ program_input = None
    /\ timecode = None
    /\ last_program_input = None
    /\ last_timecode = None
    /\ clips = << >>
    /\ events = << >>
    /\ ticks = 0
    /\ samples = << >>
    /\ all_good = TRUE
    /\ last_known = None
    /\ err_mark = <<0, 0>>
    /\ edl_error = FALSE

others == <<adjust_vars, deck_vars, edl_vars>>

\* a faulty variant of toggle_starts: the button starts a thread whatever
\* the window's state
toggle_always_starts == TRUE

\* line 332: the button starts a thread when the window is not monitoring,
\* and stops the thread otherwise
toggle_starts == ~is_monitoring

\* a faulty variant of thread_finished: wait() does not block
wait_returns_at_once == TRUE

\* QThread.wait() at lines 334 and 415 returns once run() has returned
thread_finished == pc = "done"

\* toggle_monitoring, lines 346-361: clear the event, build the thread from
\* the window's file_path and the compensation field, start it
StartMonitoring ==
    /\ gui = "idle"
    /\ toggle_starts
    /\ stop_event' = FALSE
    /\ is_monitoring' = TRUE
    /\ file_path' = gui_file_path
    /\ \E cf \in {0, DefaultCompensation} : compensation_frames' = cf
    /\ pc' = "connect_atem"
    /\ atem_connected' = FALSE
    /\ hyperdeck_conn' = "None"
    /\ program_input' = None
    /\ timecode' = None
    /\ last_program_input' = None
    /\ last_timecode' = None
    /\ clips' = << >>
    /\ events' = << >>
    /\ ticks' = 0
    /\ samples' = << >>
    /\ all_good' = TRUE
    /\ last_known' = None
    /\ err_mark' = <<0, 0>>
    /\ edl_error' = FALSE
    /\ UNCHANGED <<gui, gui_file_path, edl_file, others>>

\* the first start of the window: no thread object exists yet
ToggleStart ==
    /\ pc = "none"
    /\ StartMonitoring
    /\ UNCHANGED restarted

\* a later start: self.monitor_thread is replaced by the new thread
ToggleStartAgain ==
    /\ pc # "none"
    /\ StartMonitoring
    /\ restarted' = TRUE

\* toggle_monitoring, lines 332-334: set the event and wait for the thread
ToggleStop ==
    /\ gui = "idle"
    /\ ~toggle_starts
    /\ stop_event' = TRUE
    /\ gui' = "waiting"
    /\ UNCHANGED <<is_monitoring, gui_file_path, restarted, thread_vars,
                   history_vars, edl_file, others>>

\* toggle_monitoring, lines 334-336: wait() returns once run() has ended
WaitReturns ==
    /\ gui = "waiting"
    /\ thread_finished
    /\ is_monitoring' = FALSE
    /\ gui' = "idle"
    /\ UNCHANGED <<stop_event, gui_file_path, restarted, thread_vars,
                   history_vars, edl_file, others>>

\* choose_save_location, lines 373-378: the dialog gives a path, or the empty
\* text when it is cancelled
ChooseSaveLocation ==
    /\ gui = "idle"
    /\ \E chosen \in {SavePath, << >>} :
          gui_file_path' = IF Truthy(chosen) THEN chosen ELSE gui_file_path
    /\ UNCHANGED <<stop_event, is_monitoring, gui, restarted, thread_vars,
                   history_vars, edl_file, others>>

\* closeEvent, lines 411-415: when monitoring, set the event and wait
CloseEvent ==
    /\ gui = "idle"
    /\ IF is_monitoring
       THEN stop_event' = TRUE /\ gui' = "closing"
       ELSE gui' = "closed" /\ UNCHANGED stop_event
    /\ UNCHANGED <<is_monitoring, gui_file_path, restarted, thread_vars,
                   history_vars, edl_file, others>>

\* closeEvent, lines 415-418: wait() returns and the event is accepted
CloseWaitReturns ==
    /\ gui = "closing"
    /\ thread_finished
    /\ gui' = "closed"
    /\ UNCHANGED <<stop_event, is_monitoring, gui_file_path, restarted, thread_vars,
                   history_vars, edl_file, others>>

\* a faulty variant of OnConnectFailure: the failure is logged and run() goes on
OnConnectFailureGoesOn == pc' = "while" /\ UNCHANGED stop_event

\* lines 141-143 and 147-149: log, set the event, return
OnConnectFailure == stop_event' = TRUE /\ pc' = "done"

\* lines 137-143
RunConnectAtem ==
    /\ pc = "connect_atem"
    /\ \/ /\ atem_connected' = TRUE
          /\ pc' = "connect_deck"
          /\ UNCHANGED stop_event
       \/ /\ OnConnectFailure
          /\ UNCHANGED atem_connected
    /\ UNCHANGED <<is_monitoring, gui, gui_file_path, restarted, file_path, compensation_frames,
                   hyperdeck_conn, program_input, timecode, last_program_input,
                   last_timecode, clips, events, ticks, history_vars, edl_file, others>>

\* lines 145-153, with connect_to_hyperdeck (lines 71-81) giving a socket or None
RunConnectDeck ==
    /\ pc = "connect_deck"
    /\ \/ /\ hyperdeck_conn' = "open"
          /\ pc' = "while"
          /\ UNCHANGED stop_event
       \/ /\ OnConnectFailure
          /\ UNCHANGED hyperdeck_conn
    /\ UNCHANGED <<is_monitoring, gui, gui_file_path, restarted, file_path, compensation_frames,
                   atem_connected, program_input, timecode, last_program_input,
                   last_timecode, clips, events, ticks, history_vars, edl_file, others>>

\* line 156: the while test
RunLoopTest ==
    /\ pc = "while"
    /\ IF stop_event
       THEN pc' = "after_loop" /\ UNCHANGED ticks
       ELSE ticks < MaxTicks /\ pc' = "sample" /\ ticks' = ticks + 1
    /\ UNCHANGED <<gui_vars, file_path, compensation_frames, atem_connected,
                   hyperdeck_conn, program_input, timecode, last_program_input,
                   last_timecode, clips, events, history_vars, edl_file, others>>

\* lines 158-161: read the program input and emit it; the read may raise
RunReadInput ==
    /\ pc = "sample"
    /\ \/ /\ \E x \in Sources :
                /\ program_input' = x
                /\ events' = Append(events, InputEvent(x))
          /\ pc' = "query"
          /\ UNCHANGED history_vars
       \/ /\ pc' = IterationErrorTarget
          /\ all_good' = FALSE
          /\ samples' = << >>
          /\ err_mark' = <<err_mark[1] + 1, Len(clips)>>
          /\ UNCHANGED <<program_input, events, last_known, edl_error>>
    /\ UNCHANGED <<gui_vars, file_path, compensation_frames, atem_connected,
                   hyperdeck_conn, timecode, last_program_input, last_timecode,
                   clips, ticks, edl_file, others>>

\* the effect of lines 163-165 once the call has given the value t
Queried(t) ==
    /\ timecode' = t
    /\ events' = IF Truthy(t) THEN Append(events, TimecodeEvent(t)) ELSE events
    /\ last_known' = IF Truthy(t) THEN t ELSE last_known
    /\ all_good' = (all_good /\ Truthy(t))
    /\ samples' = IF all_good /\ Truthy(t)
                  THEN Append(samples, [input |-> program_input, tc |-> t])
                  ELSE << >>

\* lines 163-165: get_timecode_from_hyperdeck returns what it parses from the
\* buffer it received, or None from its except branch.  The call is one step
\* here, with the buffer as its input; its send and receive loop on the
\* socket are the steps of SpecDeck.  A call that never returns leaves the
\* thread at "query".
RunQueryTimecode ==
    /\ pc = "query"
    /\ \/ \E buf \in SessionBuffers : Queried(parse_response(buf))
       \/ Queried(QueryExceptResult)
    /\ pc' = "edge"
    /\ UNCHANGED <<gui_vars, file_path, compensation_frames, atem_connected,
                   hyperdeck_conn, program_input, last_program_input, last_timecode,
                   clips, ticks, err_mark, edl_error, edl_file, others>>

\* lines 167-181: the edge test.  The clip is appended before the signal is
\* emitted, and emitting None where the signal takes a str raises TypeError,
\* which skips lines 175-177.
RunEdge ==
    /\ pc = "edge"
    /\ IF program_input # last_program_input
       THEN IF last_program_input # None /\ Truthy(last_timecode)
            THEN /\ clips' = Append(clips, clip_dict(last_timecode, timecode, last_program_input))
                 /\ IF timecode = None
                    THEN /\ pc' = IterationErrorTarget
                         /\ all_good' = FALSE
                         /\ samples' = << >>
                         /\ err_mark' = <<err_mark[1] + 1, Len(clips')>>
                         /\ UNCHANGED <<events, last_program_input, last_timecode>>
                    ELSE /\ events' = Append(events,
                                 LogEvent(last_program_input, last_timecode, timecode))
                         /\ last_program_input' = program_input
                         /\ last_timecode' = timecode
                         /\ pc' = "while"
                         /\ UNCHANGED <<all_good, samples, err_mark>>
            ELSE /\ last_program_input' = program_input
                 /\ last_timecode' = timecode
                 /\ pc' = "while"
                 /\ UNCHANGED <<clips, events, all_good, samples, err_mark>>
       ELSE /\ pc' = "while"
            /\ UNCHANGED <<clips, events, last_program_input, last_timecode,
                           all_good, samples, err_mark>>
    /\ UNCHANGED <<gui_vars, file_path, compensation_frames, atem_connected,
                   hyperdeck_conn, program_input, timecode, ticks, last_known,
                   edl_error, edl_file, others>>

\* lines 183-188: the clip of the input that was live when the loop ended
RunFinalClip ==
    /\ pc = "after_loop"
    /\ clips' = IF last_program_input # None /\ Truthy(last_timecode)
                THEN Append(clips, clip_dict(last_timecode, timecode, last_program_input))
                ELSE clips
    /\ pc' = "serialize"
    /\ UNCHANGED <<gui_vars, file_path, compensation_frames, atem_connected,
                   hyperdeck_conn, program_input, timecode, last_program_input,
                   last_timecode, events, ticks, history_vars, edl_file, others>>

\* lines 190-193: generate_edl either writes the file or raises from open()
\* at line 20, which `except KeyboardInterrupt` does not catch: the finally
\* clause runs and the exception leaves run()
RunSerialize ==
    /\ pc = "serialize"
    /\ IF Truthy(file_path) /\ clips # << >>
       THEN \/ /\ edl_file' = generate_edl(clips, edl_file, compensation_frames)
               /\ UNCHANGED edl_error
            \/ /\ edl_error' = TRUE
               /\ UNCHANGED edl_file
       ELSE UNCHANGED <<edl_file, edl_error>>
    /\ pc' = "finally"
    /\ UNCHANGED <<gui_vars, file_path, compensation_frames, atem_connected,
                   hyperdeck_conn, program_input, timecode, last_program_input,
                   last_timecode, clips, events, ticks, samples, all_good,
                   last_known, err_mark, others>>

\* lines 195-199
RunFinally ==
    /\ pc = "finally"
    /\ atem_connected' = FALSE
    /\ hyperdeck_conn' = IF hyperdeck_conn = "open" THEN "closed" ELSE hyperdeck_conn
    /\ pc' = "done"
    /\ UNCHANGED <<gui_vars, file_path, compensation_frames, program_input, timecode,
                   last_program_input, last_timecode, clips, events, ticks,
                   history_vars, edl_file, others>>

---------------------------------------------------------------------------
(* the specifications *)

Init == SessionIdle /\ AdjustIdle /\ DeckIdle /\ EdlIdle /\ edl_file = NoFile

Next ==
    \/ ToggleStart
    \/ ToggleStop
    \/ WaitReturns
    \/ RunConnectAtem
    \/ RunConnectDeck
    \/ RunLoopTest
    \/ RunReadInput
    \/ RunQueryTimecode
    \/ RunEdge
    \/ RunFinalClip
    \/ RunSerialize
    \/ RunFinally
    \/ ChooseSaveLocation

Spec == Init /\ [][Next]_vars

\* run() takes its next step whenever it can, and so does a handler of
\* the window that is inside wait(); the user owes no command
RunStep ==
    \/ RunConnectAtem
    \/ RunConnectDeck
    \/ RunLoopTest
    \/ RunReadInput
    \/ RunQueryTimecode
    \/ RunEdge
    \/ RunFinalClip
    \/ RunSerialize
    \/ RunFinally

FairSpec == Spec /\ WF_vars(RunStep) /\ WF_vars(WaitReturns)

\* the whole life of a window in which no save location is chosen, so that
\* no session writes a file: starts after earlier sessions, and the close
NextWindow ==
    \/ ToggleStart
    \/ ToggleStartAgain
    \/ ToggleStop
    \/ WaitReturns
    \/ CloseEvent
    \/ CloseWaitReturns
    \/ RunConnectAtem
    \/ RunConnectDeck
    \/ RunLoopTest
    \/ RunReadInput
    \/ RunQueryTimecode
    \/ RunEdge
    \/ RunFinalClip
    \/ RunSerialize
    \/ RunFinally

SpecWindow == Init /\ [][NextWindow]_vars

InitAdjust == InitAdjustCall /\ DeckIdle /\ EdlIdle /\ SessionIdle /\ edl_file = NoFile

NextAdjust == CallAdjust

SpecAdjust == InitAdjust /\ [][NextAdjust]_vars

InitDeck == InitDeckClient /\ AdjustIdle /\ EdlIdle /\ SessionIdle /\ edl_file = NoFile

NextDeck ==
    \/ QuerySend
    \/ QueryRecv
    \/ QueryParse
    \/ DeckReply
    \/ DeckClose
    \/ ConnectionBreaks

SpecDeck == InitDeck /\ [][NextDeck]_vars

InitEdl == InitEdlCall /\ AdjustIdle /\ DeckIdle /\ SessionIdle

NextEdl == CallGenerate

SpecEdl == InitEdl /\ [][NextEdl]_vars

\* the thread that runs the call takes its next step whenever it can; the
\* deck and the network owe nothing
FairSpecDeck == SpecDeck /\ WF_vars(QuerySend \/ QueryRecv \/ QueryParse)

---------------------------------------------------------------------------
(* what the arithmetic is measured against *)

\* a timecode text of four integers within the ranges of the data model
IsValidTimecode(x) ==
    /\ ParsesAsFour(x)
    /\ LET t == ParseFour(x)
       IN  t[2] < 60 /\ t[3] < 60 /\ t[4] < FrameRate

FramesOf(t) == ((t[1] * 60 + t[2]) * 60 + t[3]) * FrameRate + t[4]

TotalFrames(x) == FramesOf(ParseFour(x))

\* the timecode that is n frames after 00:00:00:00
FromFrames(n) ==
    <<n \div (3600 * FrameRate), (n \div (60 * FrameRate)) % 60,
      (n \div FrameRate) % 60, n % FrameRate>>

\* C4: for every valid timecode t and every frame_delta d >= 0, adjust(t, d)
\* is a valid timecode whose total frame count is that of t plus d.
C4_AdjustAddsFrames ==
    (fn_state = "ret" /\ IsValidTimecode(fn_tc)) =>
        /\ IsValidTimecode(fn_out)
        /\ TotalFrames(fn_out) = TotalFrames(fn_tc) + fn_delta

\* C5: for every valid timecode t, adjust(t, 1) is the timecode of the next
\* frame, the carry running through frames, seconds and minutes in one call
\* (00:00:00:24 -> 00:00:01:00, 00:00:59:24 -> 00:01:00:00,
\* 00:59:59:24 -> 01:00:00:00).
C5_NextFrameCarries ==
    (fn_state = "ret" /\ IsValidTimecode(fn_tc) /\ fn_delta = 1) =>
        /\ fn_out = format_timecode(FromFrames(TotalFrames(fn_tc) + 1))
        /\ (fn_tc = <<"0","0",":","0","0",":","0","0",":","2","4">>
              => fn_out = <<"0","0",":","0","0",":","0","1",":","0","0">>)
        /\ (fn_tc = <<"0","0",":","0","0",":","5","9",":","2","4">>
              => fn_out = <<"0","0",":","0","1",":","0","0",":","0","0">>)
        /\ (fn_tc = <<"0","0",":","5","9",":","5","9",":","2","4">>
              => fn_out = <<"0","1",":","0","0",":","0","0",":","0","0">>)

\* the three-boundary carry has happened: 00:59:59:24 plus one frame
C5_Witness ==
    /\ fn_state = "ret"
    /\ fn_delta = 1
    /\ fn_tc = <<"0","0",":","5","9",":","5","9",":","2","4">>
    /\ fn_out = <<"0","1",":","0","0",":","0","0",":","0","0">>

---------------------------------------------------------------------------
(* what the deck client is measured against *)

HasKeyField(text) == \E i \in 1..Len(text) : text[i] = Key

HasStatusField(text) == \E i \in 1..Len(text) : text[i] \in StatusTexts

\* the display timecode a reply carries
FieldOf(reply) ==
    LET k == CHOOSE i \in 1..Len(reply) : reply[i] = Key
        nl == CHOOSE i \in (k + 1)..Len(reply) :
                 reply[i] = "\n" /\ \A j \in (k + 1)..(i - 1) : reply[j] # "\n"
    IN  Strip(SubSeq(reply, k + 1, nl - 1))

\* C7: a call whose reply from the deck carries a `display timecode:` field
\* returns that timecode, however the reply was split across the reads: not
\* None, and not the timecode of an earlier reply.
C7_ReturnsReplyTimecode ==
    (d_state = "ret" /\ ~d_io_error /\ HasKeyField(d_reply)) =>
        d_result = FieldOf(d_reply)

\* C8: every call returns in the end, also when the deck has sent data
\* without a line terminator and keeps the stream open.
C8_QueryReturns ==
    [](d_state = "recv" /\ response # << >> => <>(d_state = "ret"))

\* C9: the call never raises: a send or receive error gives None, and a
\* received buffer with a `status:` field and no `display timecode:` field
\* gives None.
C9_NeverRaises ==
    d_state = "ret" =>
        /\ d_result # QueryExceptPropagates
        /\ d_io_error => d_result = None
        /\ (~d_io_error /\ HasStatusField(d_seen) /\ ~HasKeyField(d_seen))
              => d_result = None

\* a receive raised in the second call and the call returned None
C9_Witness ==
    /\ d_state = "ret"
    /\ d_io_error
    /\ d_calls = 2
    /\ d_result = None

---------------------------------------------------------------------------
(* what the serializer is measured against *)

ClipTimecodesValid(cs) ==
    \A i \in 1..Len(cs) :
        IsValidTimecode(cs[i].start) /\ IsValidTimecode(cs[i].end)

\* the timecode d frames after a valid one
Shifted(x, d) == format_timecode(FromFrames(TotalFrames(x) + d))

ShiftedClips(cs, d) ==
    [i \in 1..Len(cs) |->
        [src |-> cs[i].src,
         start |-> Shifted(cs[i].start, d),
         end |-> Shifted(cs[i].end, d)]]

\* C6: generate with compensation > 0 writes what compensation = 0 writes
\* for the same clips in the same order with every start and end moved on by
\* exactly that many frames, and leaves the clips as they were.
C6_CompensationShiftsAll ==
    (g_state = "ret" /\ g_comp > 0 /\ g_clips # << >> /\ ClipTimecodesValid(g_clips)) =>
        /\ edl_file = generate_edl(ShiftedClips(g_clips, g_comp), NoFile, 0)
        /\ g_clips = g_before

\* what adjust_timecode cannot process: no timecode, or a text that is not
\* four integers between colons
Unprocessable(x) == x = None \/ ~ParsesAsFour(x)

\* a timecode of a clip as generate_edl has to write it when the
\* compensation is d > 0: an unprocessable one as it is
Compensated(x, d) == IF Unprocessable(x) THEN x ELSE adjust_timecode(x, d)

\* C16: adjust_timecode never raises and returns an input it cannot process
\* (None, or a text that is not four integers between colons) as it was, so
\* generate_edl with compensation writes the two lines of every clip, an
\* unprocessable start or end as stored.
C16_AdjustFallsBack ==
    (g_state = "ret" /\ g_comp > 0 /\ g_clips # << >>) =>
        /\ edl_file.exists
        /\ Len(edl_file.lines) = 2 + 2 * Len(g_clips)
        /\ \A i \in 1..Len(g_clips) :
              /\ edl_file.lines[2 * i + 1] =
                    RecordLine(i - 1, Compensated(g_clips[i].start, g_comp),
                                      Compensated(g_clips[i].end, g_comp))
              /\ edl_file.lines[2 * i + 2] = NameLine(g_clips[i].src)

\* a list whose first clip has no start and whose second ends in "00:00" was
\* written with compensation: six lines
C16_Witness ==
    /\ g_state = "ret"
    /\ g_comp > 0
    /\ Len(g_clips) = 2
    /\ g_clips[1].start = None
    /\ g_clips[2].end = ShortText
    /\ Len(edl_file.lines) = 6

\* n as four decimal digits
FourDigits(n) ==
    <<DigitChars[((n \div 1000) % 10) + 1], DigitChars[((n \div 100) % 10) + 1],
      DigitChars[((n \div 10) % 10) + 1], DigitChars[(n % 10) + 1]>>

\* C17: generate_edl on a non-empty list writes the two header lines and
\* then, for each clip in order, one record line and one source-name line;
\* the record line begins with the clip's position counted from 1 as four
\* zero-padded digits and carries the start/end pair twice, identically.
C17_EdlLayout ==
    (g_state = "ret" /\ g_clips # << >>) =>
        /\ edl_file.exists
        /\ Len(edl_file.lines) = 2 + 2 * Len(g_clips)
        /\ edl_file.lines[1] = <<"TITLE: ATEM Program Output", "\n">>
        /\ edl_file.lines[2] = <<"FCM: NON-DROP FRAME", "\n">>
        /\ \A i \in 1..Len(g_clips) :
              LET s == Text(Written(g_clips[i].start, g_comp))
                  e == Text(Written(g_clips[i].end, g_comp))
              IN  /\ edl_file.lines[2 * i + 1] =
                        FourDigits(i) \o <<"  AX    V     C   ">>
                            \o s \o <<" ">> \o e \o <<" ">> \o s \o <<" ">> \o e \o <<"\n">>
                  /\ edl_file.lines[2 * i + 2] =
                        <<"* FROM CLIP NAME: ">> \o g_clips[i].src \o <<"\n">>

\* two clips were written without compensation over an older file: the
\* second record line has the id 0002
C17_Witness ==
    /\ g_state = "ret"
    /\ g_comp = 0
    /\ Len(g_clips) = 2
    /\ g_clips[1].src # g_clips[2].src
    /\ Len(edl_file.lines) = 6
    /\ SubSeq(edl_file.lines[5], 1, 4) = <<"0", "0", "0", "2">>

\* C18: generate_edl called with no clips writes nothing (the file at the
\* path is neither created nor truncated), logs a warning and returns.
C18_EmptyWritesNothing ==
    [][(g_state = "call" /\ g_clips = << >>) =>
          /\ edl_file' = edl_file
          /\ g_log' = "warning"
          /\ g_state' = "ret"]_vars

\* the call with no clips has returned and the older file is as it was
C18_Witness ==
    /\ g_state = "ret"
    /\ g_clips = << >>
    /\ g_log = "warning"
    /\ edl_file = OldFile

---------------------------------------------------------------------------
(* what the session is measured against *)

\* the positions in a sample sequence where a run of equal inputs begins
RunStarts(ss) == {i \in 1..Len(ss) : i = 1 \/ ss[i].input # ss[i - 1].input}

\* the j-th of them
NthStart(ss, j) ==
    CHOOSE i \in RunStarts(ss) : Cardinality({x \in RunStarts(ss) : x < i}) = j - 1

\* one clip per run: from the run's first timecode to the next run's first
\* timecode, the last run to the last timecode sampled
ClipsOfRuns(ss) ==
    LET k == Cardinality(RunStarts(ss))
    IN  [j \in 1..k |->
            [src |-> ss[NthStart(ss, j)].input,
             start |-> ss[NthStart(ss, j)].tc,
             end |-> IF j < k THEN ss[NthStart(ss, j + 1)].tc ELSE ss[Len(ss)].tc]]

LoopEnded == pc \in {"serialize", "finally", "done"}

\* C1: when every iteration got a program input and a timecode and none
\* failed, the clips after the stop are one per maximal run of equal inputs,
\* in order: source the run's input, start the timecode of its first sample,
\* end the timecode of the next run's first sample, the last clip ending at
\* the last timecode sampled.
C1_ClipsAreRuns ==
    (LoopEnded /\ all_good) => clips = ClipsOfRuns(samples)

\* three good samples, a run of two and then an edge, were turned into two
\* clips, the second of zero duration
C1_Witness ==
    /\ pc = "done"
    /\ all_good
    /\ Len(samples) = 3
    /\ samples[1].input = samples[2].input
    /\ samples[2].input # samples[3].input
    /\ samples[1].tc # samples[3].tc
    /\ Len(clips) = 2
    /\ clips[2].start = clips[2].end

\* C2: while tracking, a sample whose input differs from the pending one
\* finalizes exactly one clip (pending input, pending timecode, current
\* timecode), emits one clip-completed signal for it and makes the sample
\* the pending one, whatever the deck returned.
C2_EdgeFinalizesClip ==
    [][(pc = "edge" /\ pc' # "edge" /\ last_program_input # None
            /\ program_input # last_program_input) =>
        /\ clips' = Append(clips, [src |-> last_program_input,
                                   start |-> last_timecode, end |-> timecode])
        /\ events' = Append(events, LogEvent(last_program_input, last_timecode, timecode))
        /\ last_program_input' = program_input
        /\ last_timecode' = timecode]_vars

\* C3: a stop while tracking appends exactly one final clip: the pending
\* input, the pending timecode, and as end the latest timecode the deck
\* actually gave (the start timecode when there is none newer).
C3_FinalClipUsesLastKnown ==
    [][(pc = "after_loop" /\ pc' # "after_loop" /\ last_program_input # None) =>
        clips' = Append(clips,
                    [src |-> last_program_input,
                     start |-> last_timecode,
                     end |-> IF Truthy(last_known) THEN last_known ELSE last_timecode])]_vars

\* C10: the loop is left only from its while test with the stop event set,
\* and an iteration that failed is followed by the while test.
C10_LoopEndsOnlyOnStop ==
    [][/\ (pc \in LoopPcs /\ pc' \notin LoopPcs) =>
            (pc = "while" /\ stop_event /\ pc' = "after_loop")
       /\ (err_mark' # err_mark /\ pc \in LoopPcs) => pc' = "while"]_vars

\* after a failed iteration the loop went on and a later edge added a clip
C10_Witness ==
    /\ err_mark[1] > 0
    /\ pc = "while"
    /\ Len(clips) > err_mark[2]
    /\ ~stop_event

\* C11: every loop iteration publishes an input-changed event and a
\* timecode-updated event, whether or not an edge occurred, and a
\* clip-completed event is published only on an iteration where the input
\* changed.
C11_EveryTickPublishes ==
    [][/\ (pc = "sample" /\ pc' # "sample") =>
              \E x \in Sources : events' = Append(events, InputEvent(x))
       /\ (pc = "query" /\ pc' # "query") =>
              events' = Append(events, TimecodeEvent(timecode'))
       /\ (Len(events') > Len(events)
              /\ events'[Len(events')].sig = "update_log_signal") =>
              (pc = "edge" /\ program_input # last_program_input)]_vars

\* run() has returned without a deck socket: a connection was not established
ConnectFailed == pc = "done" /\ hyperdeck_conn = "None"

\* C12: when the switcher or the deck cannot be connected, the session sets
\* the stop flag and ends before any loop iteration: no device was sampled,
\* no event published, no clip recorded, no EDL file written.
C12_ConnectFailureEndsSession ==
    ConnectFailed =>
        /\ stop_event
        /\ ticks = 0
        /\ program_input = None
        /\ timecode = None
        /\ events = << >>
        /\ clips = << >>
        /\ edl_file = NoFile

\* the switcher was connected, the deck was not, and run() has returned
C12_Witness ==
    /\ ConnectFailed
    /\ atem_connected
    /\ stop_event
    /\ is_monitoring

\* the stop command has returned: toggle_monitoring is past wait()
StopReturned == gui = "idle" /\ ~is_monitoring /\ pc # "none"

\* C13: when the stop command returns, run() has ended: the loop is over,
\* the clip of the pending input has been appended, and the EDL holds every
\* clip if and only if the session was started with a save path and has at
\* least one clip (a write that the file system refused apart).
C13_StopReturnsAfterSessionEnds ==
    StopReturned =>
        /\ pc = "done"
        /\ (last_program_input # None /\ Truthy(last_timecode)) =>
              /\ clips # << >>
              /\ clips[Len(clips)].src = last_program_input
              /\ clips[Len(clips)].start = last_timecode
        /\ ~edl_error =>
              edl_file = IF Truthy(file_path) /\ clips # << >>
                         THEN [exists |-> TRUE,
                               lines |-> generate_edl(clips, NoFile,
                                                      compensation_frames).lines]
                         ELSE NoFile

\* a session with a save path was stopped after an edge: two clips, the
\* second the pending one, and a file of two header and four clip lines
C13_Witness ==
    /\ StopReturned
    /\ Truthy(file_path)
    /\ Len(clips) = 2
    /\ clips[2].src = last_program_input
    /\ edl_file.exists
    /\ Len(edl_file.lines) = 6

\* the thread that self.monitor_thread refers to is inside run()
ThreadRunning == pc \notin {"none", "done"}

\* C14: under every interleaving of starts, stops, the window close and the
\* ends of run() (those after a connection failure too), a thread is started
\* only when the one started before it has ended, so that at most one is
\* running, and the stop event is cleared only when no thread is running.
C14_OneSessionAtATime ==
    [][/\ StartMonitoring => ~ThreadRunning
       /\ (stop_event /\ ~stop_event') => ~ThreadRunning]_vars

\* a thread started after an earlier one is in its loop with the event clear
C14_Witness ==
    /\ restarted
    /\ pc = "edge"
    /\ ticks > 0
    /\ ~stop_event
    /\ is_monitoring

\* C15: when a start fails because a device does not connect, the user is
\* notified at the start and the window does not stay in the monitoring
\* state with no session running: it leaves that state without a command
\* from the user.
C15_ConnectFailureNotified ==
    [](ConnectFailed => <>(~is_monitoring))

\* C19: in every state of a session the clips are contiguous and gap-free:
\* every clip has a start and an end, and each clip after the first starts
\* at the end of the clip before it and has another source, also when
\* queries return no timecode or iterations fail.
C19_ClipsContiguous ==
    /\ \A i \in 1..Len(clips) : clips[i].start # None /\ clips[i].end # None
    /\ \A i \in 1..(Len(clips) - 1) :
          /\ clips[i + 1].start = clips[i].end
          /\ clips[i + 1].src # clips[i].src

\* C20: on every path by which run() ends (the switcher does not connect,
\* the deck does not connect, a stop, an error of the final serialization)
\* every connection that was opened has been closed: the switcher is
\* disconnected and the deck socket is closed.
C20_ConnectionsClosedAtExit ==
    pc = "done" => (~atem_connected /\ hyperdeck_conn # "open")

===========================================================================
